---- MODULE Spec2Model ----
(***************************************************************************)
(* Model of the Sparse bitset of jba/bitset: a radix tree of 7 interior    *)
(* levels (node, shift 56 .. 8) over set256 leaves.  The heap is explicit: *)
(* nodes, child arrays (the backing arrays of the subnodes slices) and     *)
(* leaves are heap objects named by ids, so that aliasing between slices   *)
(* and between sets is part of the state.                                  *)
(*                                                                         *)
(* A uint64 key is the tuple of its 8 bytes, most significant first, so    *)
(* uint8(e >> shift) is the byte at position 8 - shift/8.  A Set64 (one    *)
(* 64-bit word) is the set of the positions of its 1 bits.                 *)
(***************************************************************************)
EXTENDS Integers, Sequences, FiniteSets, TLC

VARIABLES heap, root, panicked, last, budget, ref, done, trav, pure, dense

vars == <<heap, root, panicked, last, budget, ref, done, trav, pure, dense>>

----------------------------------------------------------------------------
(* Bounds *)

\* number of keys of KeyTable the operations draw their arguments from
NumKeys == 3

\* number of calls of a run of the whole program (a Sparse whose root was
\* emptied by RemoveIn keeps its children, so the heap grows without bound)
MaxCalls == 5

\* number of calls of a run of the program that only adds and removes keys
MaxAddRemove == 5

KeyTable ==
  << <<0, 0, 0, 0, 0, 0, 0, 0>>,
     <<255, 255, 255, 255, 255, 255, 255, 255>>,
     <<0, 1, 0, 0, 0, 0, 0, 0>>,
     <<0, 0, 0, 0, 0, 0, 0, 1>>,
     <<0, 0, 0, 0, 0, 0, 1, 0>>,
     <<0, 0, 0, 0, 0, 0, 0, 64>> >>

Keys == {KeyTable[i] : i \in 1..NumKeys}

Key0 == KeyTable[1]

KeyMax == KeyTable[2]

\* the Sparse values the program holds
SetNames == {"a", "b"}

Other(s) == CHOOSE t \in SetNames : t # s

----------------------------------------------------------------------------
(* uint64 as 8 bytes *)

Nil == 0

RootShift == 56

LeafShift == 8

ByteAt(e, shift) == e[8 - (shift \div 8)]

Low8(e) == e[8]

ZeroKey == <<0, 0, 0, 0, 0, 0, 0, 0>>

RECURSIVE BitOr(_, _)
BitOr(x, y) ==
  IF x = 0 THEN y
  ELSE IF y = 0 THEN x
  ELSE (IF (x % 2 = 1) \/ (y % 2 = 1) THEN 1 ELSE 0) + 2 * BitOr(x \div 2, y \div 2)

\* high | (uint64(index) << shift)
OrByte(high, index, shift) ==
  [high EXCEPT ![8 - (shift \div 8)] = BitOr(@, index)]

RECURSIVE KeyLessFrom(_, _, _)
KeyLessFrom(x, y, i) ==
  IF i > 8 THEN FALSE
  ELSE IF x[i] # y[i] THEN x[i] < y[i]
  ELSE KeyLessFrom(x, y, i + 1)

\* x < y as uint64
KeyLess(x, y) == KeyLessFrom(x, y, 1)

----------------------------------------------------------------------------
(* Set64: a 64-bit word as the set of its set bits *)

Set64_Add(s, u) == s \cup {u}

Set64_Remove(s, u) == s \ {u}

Set64_Contains(s, u) == u \in s

Set64_Empty(s) == s = {}

Set64_Len(s) == Cardinality(s)

Set64_Complement(s) == (0..63) \ s

Set64_AddIn(s1, s2) == s1 \cup s2

Set64_RemoveNotIn(s1, s2) == s1 \cap s2

Set64_RemoveIn(s1, s2) == Set64_RemoveNotIn(s1, Set64_Complement(s2))

\* uint64(1 << n): the 1 is a uint64, a shift by 64 or more gives 0
Uint64_Shl1(n) == IF n < 64 THEN {n} ELSE {}

\* m - 1 in 64 bits: the lowest set bit is cleared and the bits below it are
\* set; 0 - 1 wraps to all ones
Uint64_Minus1(m) ==
  IF m = {} THEN 0..63
  ELSE LET low == CHOOSE x \in m : \A y \in m : x <= y
       IN (m \ {low}) \cup (0..(low - 1))

\* position with the mask computed in 32 bits: 1 << n is 0 for n >= 32
Set64_position_mask32(s, n) ==
  LET mask == IF n < 32 THEN {n} ELSE {}
      maskMinus1 == Uint64_Minus1(mask)
  IN [pos |-> Cardinality(s \cap maskMinus1), in |-> (s \cap mask) # {}]

\* mask = 1 << n; in = s & mask != 0; pos = OnesCount64(s & (mask - 1))
Set64_position(s, n) ==
  LET mask == Uint64_Shl1(n)
      maskMinus1 == Uint64_Minus1(mask)
  IN [pos |-> Cardinality(s \cap maskMinus1), in |-> (s \cap mask) # {}]

\* for b := start; b < 64 && n < len(a); b++ { if s.Contains(b) { a[n] =
\* high | uint64(b); n++ } }: out with the members of s from b on appended
\* in ascending order, as far as len(a) allows
Set64_elements64_loop(s, alen, b, high, out) ==
  LET M == {m \in b..63 : Set64_Contains(s, m)}
      room == IF alen > Len(out) THEN alen - Len(out) ELSE 0
      n == IF Cardinality(M) < room THEN Cardinality(M) ELSE room
      kth(k) == CHOOSE m \in M : Cardinality({x \in M : x < m}) = k - 1
  IN out \o [k \in 1..n |-> [high EXCEPT ![8] = BitOr(@, kth(k))]]

\* the values written to a[0 .. n), n the return value
Set64_elements64(s, alen, start, high) ==
  IF alen = 0 THEN <<>> ELSE Set64_elements64_loop(s, alen, start, high, <<>>)

----------------------------------------------------------------------------
(* set256: four Set64 words; word i of the code is sets[i + 1] *)

EmptySet256 == <<{}, {}, {}, {}>>

set256_add(s, n) == [s EXCEPT ![(n \div 64) + 1] = Set64_Add(@, n % 64)]

set256_remove(s, n) == [s EXCEPT ![(n \div 64) + 1] = Set64_Remove(@, n % 64)]

set256_contains(s, n) == Set64_Contains(s[(n \div 64) + 1], n % 64)

set256_empty(s) ==
  Set64_Empty(s[1]) /\ Set64_Empty(s[2]) /\ Set64_Empty(s[3]) /\ Set64_Empty(s[4])

set256_len(s) ==
  Set64_Len(s[1]) + Set64_Len(s[2]) + Set64_Len(s[3]) + Set64_Len(s[4])

set256_equal(s1, s2) ==
  s1[1] = s2[1] /\ s1[2] = s2[2] /\ s1[3] = s2[3] /\ s1[4] = s2[4]

\* position whose case 2 leaves out the length of the second word
set256_position_case2(b, n) ==
  LET i == n \div 64
      pos == CASE i = 1 -> Set64_Len(b[1])
               [] i = 2 -> Set64_Len(b[1])
               [] i = 3 -> Set64_Len(b[1]) + Set64_Len(b[2]) + Set64_Len(b[3])
               [] OTHER -> 0
      p == Set64_position(b[i + 1], n % 64)
  IN [pos |-> pos + p.pos, in |-> p.in]

set256_position(b, n) ==
  LET i == n \div 64
      pos == CASE i = 1 -> Set64_Len(b[1])
               [] i = 2 -> Set64_Len(b[1]) + Set64_Len(b[2])
               [] i = 3 -> Set64_Len(b[1]) + Set64_Len(b[2]) + Set64_Len(b[3])
               [] OTHER -> 0
      p == Set64_position(b[i + 1], n % 64)
  IN [pos |-> pos + p.pos, in |-> p.in]

set256_addIn(s1, s2) ==
  <<Set64_AddIn(s1[1], s2[1]),
    Set64_AddIn(s1[2], s2[2]),
    Set64_AddIn(s1[3], s2[3]),
    Set64_AddIn(s1[4], s2[4])>>

set256_removeIn(s1, s2) ==
  <<Set64_RemoveIn(s1[1], s2[1]),
    Set64_RemoveIn(s1[2], s2[2]),
    Set64_RemoveIn(s1[3], s2[3]),
    Set64_RemoveIn(s1[4], s2[4])>>

set256_removeNotIn(s1, s2) ==
  <<Set64_RemoveNotIn(s1[1], s2[1]),
    Set64_RemoveNotIn(s1[2], s2[2]),
    Set64_RemoveNotIn(s1[3], s2[3]),
    Set64_RemoveNotIn(s1[4], s2[4])>>

RECURSIVE set256_elements64high8_loop(_, _, _, _, _)
set256_elements64high8_loop(s, alen, i, high, out) ==
  IF i >= 4 THEN out
  ELSE set256_elements64high8_loop(s, alen, i + 1, high,
         out \o Set64_elements64(s[i + 1], alen - Len(out), 0,
                                 [high EXCEPT ![8] = BitOr(@, i * 64)]))

set256_elements64high8(s, alen, start, high) ==
  IF alen = 0 THEN <<>>
  ELSE LET si == start \div 64
           first == Set64_elements64(s[si + 1], alen, start % 64,
                                     [high EXCEPT ![8] = BitOr(@, si * 64)])
       IN set256_elements64high8_loop(s, alen, si + 1, high, first)

set256_elements64high(s, alen, start, high) ==
  set256_elements64high8(s, alen, Low8(start), high)

----------------------------------------------------------------------------
(* The heap.  An object is a node, a leaf (a set256) or a child array (the  *)
(* backing array of a subnodes slice).  The subnodes slice of a node is     *)
(* (arr, len): it starts at element 0 of array arr; the capacity is the     *)
(* length of the array.  Array elements and positions are 0-based in the    *)
(* code, slots[i + 1] is element i.                                         *)

NodeObj(shift, bitset, arr, len) ==
  [kind |-> "node", shift |-> shift, bitset |-> bitset, arr |-> arr,
   len |-> len, slots |-> <<>>]

LeafObj(sets) ==
  [kind |-> "leaf", shift |-> 0, bitset |-> sets, arr |-> Nil,
   len |-> 0, slots |-> <<>>]

ArrayObj(slots) ==
  [kind |-> "array", shift |-> 0, bitset |-> EmptySet256, arr |-> Nil,
   len |-> 0, slots |-> slots]

subnode(index, sub) == [index |-> index, sub |-> sub]

EmptyHeap == <<>>

\* allocation: the smallest id not in use
NewId(h) ==
  LET free == (1..(Cardinality(DOMAIN h) + 1)) \ DOMAIN h
  IN CHOOSE i \in free : \A j \in free : i <= j

Put(h, id, obj) ==
  IF id \in DOMAIN h THEN [h EXCEPT ![id] = obj] ELSE h @@ (id :> obj)

\* the whole backing array of n.subnodes
ArraySlots(h, n) == IF h[n].arr = Nil THEN <<>> ELSE h[h[n].arr].slots

\* n.subnodes
Subnodes(h, n) == SubSeq(ArraySlots(h, n), 1, h[n].len)

\* results of the operations: the heap after, whether the call returned
\* (ok) or panicked, and the value returned
Ok(h, ret) == [h |-> h, ok |-> TRUE, ret |-> ret]

Panic(h) == [h |-> h, ok |-> FALSE, ret |-> FALSE]

\* assert(b) panics when b is false
assert(b) == b

\* what a node reaches: its backing array and the elements of n.subnodes
Refs(h, id) ==
  IF h[id].kind = "node" /\ h[id].arr # Nil
  THEN {h[id].arr} \cup {h[h[id].arr].slots[i].sub : i \in 1..h[id].len}
  ELSE {}

RECURSIVE Reachable(_, _)
Reachable(h, S) ==
  LET N == S \cup UNION {Refs(h, i) : i \in S}
  IN IF N = S THEN S ELSE Reachable(h, N)

\* the objects a node refers to, in the order of its fields
RefSeq(h, id) ==
  IF h[id].kind = "node" /\ h[id].arr # Nil
  THEN <<h[id].arr>> \o [i \in 1..h[id].len |-> h[h[id].arr].slots[i].sub]
  ELSE <<>>

\* the elements of q at the positions I, in the order of q
SubSeqAt(q, I) ==
  LET sel == SelectSeq([i \in 1..Len(q) |-> i], LAMBDA i : i \in I)
  IN [k \in 1..Len(sel) |-> q[sel[k]]]

\* the concatenation of RefSeq(h, q[1]), RefSeq(h, q[2]), ...
RECURSIVE RefSeqAll(_, _)
RefSeqAll(h, q) ==
  IF q = <<>> THEN <<>> ELSE RefSeq(h, Head(q)) \o RefSeqAll(h, Tail(q))

\* the ids in the order of a walk from the roots, level by level: todo is
\* a level, order the ids walked so far
RECURSIVE Walk(_, _, _)
Walk(h, todo, order) ==
  LET seen == {order[i] : i \in 1..Len(order)}
      first == {i \in 1..Len(todo) :
                  todo[i] \notin seen /\ \A j \in 1..(i - 1) : todo[j] # todo[i]}
      fresh == SubSeqAt(todo, first)
  IN IF first = {} THEN order
     ELSE Walk(h, RefSeqAll(h, fresh), order \o fresh)

RootSeq(rt) ==
  LET names == <<"a", "b", "t", "a2", "b2">>
      live == SelectSeq(names, LAMBDA s : s \in DOMAIN rt /\ rt[s] # Nil)
  IN [i \in 1..Len(live) |-> rt[live[i]]]

\* The garbage collector.  Objects no Sparse reaches are freed.  An element
\* of a backing array beyond the length of every slice of that array cannot
\* be read (the code never extends a slice), so it is dropped as well.  The
\* ids of the live objects are renumbered in walk order: an id is an
\* address, and no operation depends on its value.
Collect(h, rt) ==
  LET order == Walk(h, RootSeq(rt), <<>>)
      live == {order[i] : i \in 1..Len(order)}
      ren == [id \in live |-> CHOOSE i \in 1..Len(order) : order[i] = id]
      maxlen(arr) == LET ls == {h[n].len : n \in {m \in live : h[m].kind = "node" /\ h[m].arr = arr}}
                     IN CHOOSE l \in ls : \A k \in ls : k <= l
      move(obj, id) ==
        IF obj.kind = "node" THEN [obj EXCEPT !.arr = IF @ = Nil THEN Nil ELSE ren[@]]
        ELSE IF obj.kind = "array"
        THEN [obj EXCEPT !.slots = [i \in 1..maxlen(id) |->
                                      subnode(obj.slots[i].index, ren[obj.slots[i].sub])]]
        ELSE obj
  IN [h |-> [i \in 1..Len(order) |-> move(h[order[i]], order[i])],
      rt |-> [s \in DOMAIN rt |-> IF rt[s] = Nil THEN Nil ELSE ren[rt[s]]]]

----------------------------------------------------------------------------
(* node *)

\* newSubber that makes the leaves one level too high
node_newSubber_leafAt16(h, n) ==
  LET id == NewId(h)
  IN IF h[n].shift = LeafShift + 8
     THEN [h |-> Put(h, id, LeafObj(EmptySet256)), id |-> id]
     ELSE [h |-> Put(h, id, NodeObj(h[n].shift - 8, EmptySet256, Nil, 0)), id |-> id]

node_newSubber(h, n) ==
  LET id == NewId(h)
  IN IF h[n].shift = LeafShift
     THEN [h |-> Put(h, id, LeafObj(EmptySet256)), id |-> id]
     ELSE [h |-> Put(h, id, NodeObj(h[n].shift - 8, EmptySet256, Nil, 0)), id |-> id]

\* newsubs := make([]subnode, len+1); copy; n.subnodes = newsubs;
\* n.bitset.add(sn.index).  n.subnodes[pos:] panics when pos > len.
node_insertSubnode(h, n, pos, sn) ==
  IF pos > h[n].len THEN Panic(h)
  ELSE LET old == Subnodes(h, n)
           newsubs == SubSeq(old, 1, pos) \o <<sn>> \o SubSeq(old, pos + 1, Len(old))
           a == NewId(h)
           h1 == Put(h, a, ArrayObj(newsubs))
       IN Ok([h1 EXCEPT ![n].arr = a, ![n].len = Len(newsubs),
                        ![n].bitset = set256_add(@, sn.index)], TRUE)

\* deleteSubnode without its copy(n.subnodes[pos:], n.subnodes[pos+1:]): the
\* slice is shortened but the subnodes after pos are not moved down
node_deleteSubnode_noCopy(h, n, pos) ==
  IF pos >= h[n].len THEN Panic(h)
  ELSE LET index == h[h[n].arr].slots[pos + 1].index
       IN Ok([h EXCEPT ![n].len = h[n].len - 1,
                       ![n].bitset = set256_remove(@, index)], TRUE)

\* copy(n.subnodes[pos:], n.subnodes[pos+1:]) moves the tail down inside the
\* backing array; the last element of the old slice stays in the array.
node_deleteSubnode(h, n, pos) ==
  IF pos >= h[n].len THEN Panic(h)
  ELSE LET len == h[n].len
           arr == h[n].arr
           old == h[arr].slots
           index == old[pos + 1].index
           moved == [i \in 1..Len(old) |->
                       IF i >= pos + 1 /\ i <= len - 1 THEN old[i + 1] ELSE old[i]]
       IN Ok([h EXCEPT ![arr].slots = moved, ![n].len = len - 1,
                       ![n].bitset = set256_remove(@, index)], TRUE)

set256_add64(h, id, e) ==
  Ok([h EXCEPT ![id].bitset = set256_add(@, Low8(e))], TRUE)

set256_remove64(h, id, e) ==
  LET h1 == [h EXCEPT ![id].bitset = set256_remove(@, Low8(e))]
  IN Ok(h1, set256_empty(h1[id].bitset))

set256_contains64(h, id, e) == set256_contains(h[id].bitset, Low8(e))

set256_copy(h, id) ==
  LET c == NewId(h)
  IN [h |-> Put(h, c, LeafObj(h[id].bitset)), id |-> c]

RECURSIVE subber_add64(_, _, _)
node_add64(h, n, e) ==
  LET index == ByteAt(e, h[n].shift)
      p == set256_position(h[n].bitset, index)
  IN IF p.in
     THEN IF p.pos >= h[n].len THEN Panic(h)
          ELSE subber_add64(h, Subnodes(h, n)[p.pos + 1].sub, e)
     ELSE LET r1 == node_newSubber(h, n)
              r2 == node_insertSubnode(r1.h, n, p.pos, subnode(index, r1.id))
          IN IF ~r2.ok THEN r2 ELSE subber_add64(r2.h, r1.id, e)

subber_add64(h, id, e) ==
  IF h[id].kind = "leaf" THEN set256_add64(h, id, e) ELSE node_add64(h, id, e)

RECURSIVE subber_remove64(_, _, _)
node_remove64(h, n, e) ==
  LET index == ByteAt(e, h[n].shift)
      p == set256_position(h[n].bitset, index)
  IN IF ~p.in THEN Ok(h, FALSE)
     ELSE IF p.pos >= h[n].len THEN Panic(h)
     ELSE IF ~assert(Subnodes(h, n)[p.pos + 1].index = index) THEN Panic(h)
     ELSE LET r == subber_remove64(h, Subnodes(h, n)[p.pos + 1].sub, e)
          IN IF ~r.ok THEN r
             ELSE IF r.ret
                  THEN IF r.h[n].len = 1 THEN Ok(r.h, TRUE)
                       ELSE LET d == node_deleteSubnode(r.h, n, p.pos)
                            IN IF d.ok THEN Ok(d.h, FALSE) ELSE d
                  ELSE Ok(r.h, FALSE)

subber_remove64(h, id, e) ==
  IF h[id].kind = "leaf" THEN set256_remove64(h, id, e) ELSE node_remove64(h, id, e)

RECURSIVE subber_contains64(_, _, _)
node_contains64(h, n, e) ==
  LET index == ByteAt(e, h[n].shift)
      p == set256_position(h[n].bitset, index)
  IN IF ~p.in THEN Ok(h, FALSE)
     ELSE IF p.pos >= h[n].len THEN Panic(h)
     ELSE subber_contains64(h, Subnodes(h, n)[p.pos + 1].sub, e)

subber_contains64(h, id, e) ==
  IF h[id].kind = "leaf" THEN Ok(h, set256_contains64(h, id, e))
  ELSE node_contains64(h, id, e)

RECURSIVE subber_len(_, _)
RECURSIVE node_len_loop(_, _, _)
node_len_loop(h, subs, i) ==
  IF i > Len(subs) THEN 0
  ELSE subber_len(h, subs[i].sub) + node_len_loop(h, subs, i + 1)

\* node.len with t += 1 in place of t += s.sub.len(): the number of subnodes
node_len_subnodeCount(h, n) == h[n].len

node_len(h, n) == node_len_loop(h, Subnodes(h, n), 1)

subber_len(h, id) ==
  IF h[id].kind = "leaf" THEN set256_len(h[id].bitset) ELSE node_len(h, id)

\* n2.subnodes[i] panics when i >= len(n2.subnodes); the type assertions
\* of equalSub panic when the dynamic type is the other one
RECURSIVE subber_equalSub(_, _, _)
RECURSIVE node_equal_loop(_, _, _, _)
node_equal_loop(h, n1, n2, i) ==
  IF i >= h[n1].len THEN Ok(h, TRUE)
  ELSE IF i >= h[n2].len THEN Panic(h)
  ELSE LET r == subber_equalSub(h, Subnodes(h, n1)[i + 1].sub, Subnodes(h, n2)[i + 1].sub)
       IN IF ~r.ok THEN r
          ELSE IF ~r.ret THEN Ok(h, FALSE)
          ELSE node_equal_loop(h, n1, n2, i + 1)

node_equal(h, n1, n2) ==
  IF ~set256_equal(h[n1].bitset, h[n2].bitset) THEN Ok(h, FALSE)
  ELSE node_equal_loop(h, n1, n2, 0)

subber_equalSub(h, s1, s2) ==
  IF h[s1].kind # h[s2].kind THEN Panic(h)
  ELSE IF h[s1].kind = "leaf" THEN Ok(h, set256_equal(h[s1].bitset, h[s2].bitset))
  ELSE node_equal(h, s1, s2)

\* n2 := *n copies the slice header, not the backing array: the loop
\* stores the copies of the children into the array n also uses
RECURSIVE subber_copy(_, _)
RECURSIVE node_copyNode_loop(_, _, _, _)
node_copyNode_loop(h, arr, len, i) ==
  IF i >= len THEN h
  ELSE LET sn == h[arr].slots[i + 1]
           c == subber_copy(h, sn.sub)
       IN node_copyNode_loop([c.h EXCEPT ![arr].slots[i + 1].sub = c.id], arr, len, i + 1)

node_copyNode(h, n) ==
  IF n = Nil THEN [h |-> h, id |-> Nil]
  ELSE LET n2 == NewId(h)
           h1 == Put(h, n2, h[n])
       IN [h |-> node_copyNode_loop(h1, h[n].arr, h[n].len, 0), id |-> n2]

subber_copy(h, id) ==
  IF h[id].kind = "leaf" THEN set256_copy(h, id) ELSE node_copyNode(h, id)

\* the type assertion of the argument and assert(n1.shift == n2.shift)
SameLevel(h, s1, s2) ==
  /\ h[s1].kind = h[s2].kind
  /\ h[s1].kind = "node" => assert(h[s1].shift = h[s2].shift)

RECURSIVE subber_addIn(_, _, _)
RECURSIVE node_addIn_merge(_, _, _, _, _)
node_addIn_merge(h, n1, n2, i1, i2) ==
  IF ~(i1 < h[n1].len /\ i2 < h[n2].len) THEN [h |-> h, ok |-> TRUE, i1 |-> i1, i2 |-> i2]
  ELSE LET sn1 == Subnodes(h, n1)[i1 + 1]
           sn2 == Subnodes(h, n2)[i2 + 1]
       IN IF sn1.index < sn2.index THEN node_addIn_merge(h, n1, n2, i1 + 1, i2)
          ELSE IF sn1.index > sn2.index
          THEN LET c == subber_copy(h, sn2.sub)
                   r == node_insertSubnode(c.h, n1, i1, subnode(sn2.index, c.id))
               IN IF ~r.ok THEN [h |-> r.h, ok |-> FALSE, i1 |-> i1, i2 |-> i2]
                  ELSE node_addIn_merge(r.h, n1, n2, i1 + 1, i2 + 1)
          ELSE LET r == subber_addIn(h, sn1.sub, sn2.sub)
               IN IF ~r.ok THEN [h |-> r.h, ok |-> FALSE, i1 |-> i1, i2 |-> i2]
                  ELSE node_addIn_merge(r.h, n1, n2, i1 + 1, i2 + 1)

RECURSIVE node_addIn_rest(_, _, _, _, _)
node_addIn_rest(h, n1, n2, i1, i2) ==
  IF ~(i2 < h[n2].len) THEN Ok(h, TRUE)
  ELSE LET sn2 == Subnodes(h, n2)[i2 + 1]
           c == subber_copy(h, sn2.sub)
           r == node_insertSubnode(c.h, n1, i1, subnode(sn2.index, c.id))
       IN IF ~r.ok THEN r ELSE node_addIn_rest(r.h, n1, n2, i1 + 1, i2 + 1)

node_addIn(h, n1, n2) ==
  IF ~SameLevel(h, n1, n2) THEN Panic(h)
  ELSE LET m == node_addIn_merge(h, n1, n2, 0, 0)
       IN IF ~m.ok THEN Panic(m.h) ELSE node_addIn_rest(m.h, n1, n2, m.i1, m.i2)

subber_addIn(h, s1, s2) ==
  IF h[s1].kind = "leaf"
  THEN IF h[s2].kind # "leaf" THEN Panic(h)
       ELSE Ok([h EXCEPT ![s1].bitset = set256_addIn(@, h[s2].bitset)], TRUE)
  ELSE node_addIn(h, s1, s2)

\* sns := n.subnodes; n.subnodes = n.subnodes[:0]; append the subnodes
\* whose index is in the bitset: the filter runs inside the backing array
node_adjustSubnodes(h, n) ==
  IF h[n].arr = Nil THEN h
  ELSE LET arr == h[n].arr
           old == h[arr].slots
           sns == Subnodes(h, n)
           keep == SelectSeq(sns, LAMBDA sn : set256_contains(h[n].bitset, sn.index))
       IN [h EXCEPT ![arr].slots = keep \o SubSeq(old, Len(keep) + 1, Len(old)),
                    ![n].len = Len(keep)]

RECURSIVE subber_removeIn(_, _, _)
RECURSIVE node_removeIn_loop(_, _, _, _, _, _)
node_removeIn_loop(h, n1, n2, i1, i2, removed) ==
  IF ~(i1 < h[n1].len /\ i2 < h[n2].len) THEN Ok(h, removed)
  ELSE LET sn1 == Subnodes(h, n1)[i1 + 1]
           sn2 == Subnodes(h, n2)[i2 + 1]
       IN IF sn1.index < sn2.index THEN node_removeIn_loop(h, n1, n2, i1 + 1, i2, removed)
          ELSE IF sn1.index > sn2.index THEN node_removeIn_loop(h, n1, n2, i1, i2 + 1, removed)
          ELSE LET r == subber_removeIn(h, sn1.sub, sn2.sub)
               IN IF ~r.ok THEN r
                  ELSE IF r.ret
                  THEN node_removeIn_loop(
                         [r.h EXCEPT ![n1].bitset = set256_remove(@, sn1.index)],
                         n1, n2, i1 + 1, i2 + 1, TRUE)
                  ELSE node_removeIn_loop(r.h, n1, n2, i1 + 1, i2 + 1, removed)

node_removeIn(h, n1, n2) ==
  IF ~SameLevel(h, n1, n2) THEN Panic(h)
  ELSE LET r == node_removeIn_loop(h, n1, n2, 0, 0, FALSE)
       IN IF ~r.ok THEN r
          ELSE IF set256_empty(r.h[n1].bitset) THEN Ok(r.h, TRUE)
          ELSE IF ~r.ret THEN Ok(r.h, FALSE)
          ELSE Ok(node_adjustSubnodes(r.h, n1), FALSE)

subber_removeIn(h, s1, s2) ==
  IF h[s1].kind = "leaf"
  THEN IF h[s2].kind # "leaf" THEN Panic(h)
       ELSE LET h1 == [h EXCEPT ![s1].bitset = set256_removeIn(@, h[s2].bitset)]
            IN Ok(h1, set256_empty(h1[s1].bitset))
  ELSE node_removeIn(h, s1, s2)

RECURSIVE subber_removeNotIn(_, _, _)
RECURSIVE node_removeNotIn_loop(_, _, _, _, _, _)
node_removeNotIn_loop(h, n1, n2, i1, i2, removed) ==
  IF ~(i1 < h[n1].len /\ i2 < h[n2].len) THEN Ok(h, removed)
  ELSE LET sn1 == Subnodes(h, n1)[i1 + 1]
           sn2 == Subnodes(h, n2)[i2 + 1]
       IN IF sn1.index < sn2.index
          THEN node_removeNotIn_loop(
                 [h EXCEPT ![n1].bitset = set256_remove(@, sn1.index)],
                 n1, n2, i1 + 1, i2, TRUE)
          ELSE IF sn1.index > sn2.index
          THEN node_removeNotIn_loop(h, n1, n2, i1, i2 + 1, removed)
          ELSE LET r == subber_removeNotIn(h, sn1.sub, sn2.sub)
               IN IF ~r.ok THEN r
                  ELSE IF r.ret
                  THEN node_removeNotIn_loop(
                         [r.h EXCEPT ![n1].bitset = set256_remove(@, sn1.index)],
                         n1, n2, i1 + 1, i2 + 1, TRUE)
                  ELSE node_removeNotIn_loop(r.h, n1, n2, i1 + 1, i2 + 1, removed)

node_removeNotIn(h, n1, n2) ==
  IF ~SameLevel(h, n1, n2) THEN Panic(h)
  ELSE LET r == node_removeNotIn_loop(h, n1, n2, 0, 0, FALSE)
       IN IF ~r.ok THEN r
          ELSE IF set256_empty(r.h[n1].bitset) THEN Ok(r.h, TRUE)
          ELSE IF ~r.ret THEN Ok(r.h, FALSE)
          ELSE Ok(node_adjustSubnodes(r.h, n1), FALSE)

subber_removeNotIn(h, s1, s2) ==
  IF h[s1].kind = "leaf"
  THEN IF h[s2].kind # "leaf" THEN Panic(h)
       ELSE LET h1 == [h EXCEPT ![s1].bitset = set256_removeNotIn(@, h[s2].bitset)]
            IN Ok(h1, set256_empty(h1[s1].bitset))
  ELSE node_removeNotIn(h, s1, s2)

\* the values written to a[0 .. total), total the return value; alen is
\* len(a)
RECURSIVE subber_elements64high(_, _, _, _, _)
RECURSIVE node_elements64high_loop(_, _, _, _, _, _)
node_elements64high_loop(h, n, alen, high, i, out) ==
  IF i >= h[n].len THEN Ok(h, out)
  ELSE IF Len(out) > alen THEN Panic(h)
  ELSE LET sn == Subnodes(h, n)[i + 1]
           r == subber_elements64high(h, sn.sub, alen - Len(out), ZeroKey,
                                      OrByte(high, sn.index, h[n].shift))
       IN IF ~r.ok THEN r
          ELSE node_elements64high_loop(h, n, alen, high, i + 1, out \o r.ret)

node_elements64high(h, n, alen, start, high) ==
  LET si == ByteAt(start, h[n].shift)
      p == set256_position(h[n].bitset, si)
  IN IF p.in
     THEN IF p.pos >= h[n].len THEN Panic(h)
          ELSE LET sn == Subnodes(h, n)[p.pos + 1]
                   r == subber_elements64high(h, sn.sub, alen, start,
                                              OrByte(high, sn.index, h[n].shift))
               IN IF ~r.ok THEN r
                  ELSE node_elements64high_loop(h, n, alen, high, p.pos + 1, r.ret)
     ELSE node_elements64high_loop(h, n, alen, high, p.pos, <<>>)

subber_elements64high(h, id, alen, start, high) ==
  IF h[id].kind = "leaf" THEN Ok(h, set256_elements64high(h[id].bitset, alen, start, high))
  ELSE node_elements64high(h, id, alen, start, high)

----------------------------------------------------------------------------
(* Sparse.  rt maps the name of each Sparse value to its root field.  A    *)
(* mutating operation returns the heap and the roots after the call.       *)

Res(h, rt, ok) == [h |-> h, rt |-> rt, ok |-> ok]

Sparse_init(h) ==
  LET id == NewId(h)
  IN [h |-> Put(h, id, NodeObj(RootShift, EmptySet256, Nil, 0)), id |-> id]

Sparse_Add64(h, rt, s, n) ==
  LET i == IF rt[s] = Nil THEN Sparse_init(h) ELSE [h |-> h, id |-> rt[s]]
      r == node_add64(i.h, i.id, n)
  IN Res(r.h, [rt EXCEPT ![s] = i.id], r.ok)

Sparse_Remove64(h, rt, s, n) ==
  IF rt[s] = Nil THEN Res(h, rt, TRUE)
  ELSE LET r == node_remove64(h, rt[s], n)
       IN IF r.ok /\ r.ret THEN Res(r.h, [rt EXCEPT ![s] = Nil], TRUE)
          ELSE Res(r.h, rt, r.ok)

Sparse_Contains64(h, rt, s, n) ==
  IF rt[s] = Nil THEN Ok(h, FALSE) ELSE node_contains64(h, rt[s], n)

Sparse_Empty(rt, s) == rt[s] = Nil

Sparse_Clear(h, rt, s) == Res(h, [rt EXCEPT ![s] = Nil], TRUE)

Sparse_Equal(h, rt, s1, s2) ==
  IF rt[s1] = Nil \/ rt[s2] = Nil THEN Ok(h, rt[s1] = rt[s2])
  ELSE node_equal(h, rt[s1], rt[s2])

\* c := NewSparse(); s.root = s.root.copyNode(); return c.  The result is
\* stored in the variable c.
Sparse_Copy(h, rt, s, c) ==
  LET r == node_copyNode(h, rt[s])
  IN Res(r.h, [rt EXCEPT ![s] = r.id, ![c] = Nil], TRUE)

Sparse_Len(h, rt, s) == IF rt[s] = Nil THEN 0 ELSE node_len(h, rt[s])

Sparse_AddIn(h, rt, s1, s2) ==
  IF Sparse_Empty(rt, s2) THEN Res(h, rt, TRUE)
  ELSE LET i == IF Sparse_Empty(rt, s1) THEN Sparse_init(h) ELSE [h |-> h, id |-> rt[s1]]
           r == node_addIn(i.h, i.id, rt[s2])
       IN Res(r.h, [rt EXCEPT ![s1] = i.id], r.ok)

Sparse_RemoveIn(h, rt, s1, s2) ==
  IF Sparse_Empty(rt, s1) \/ Sparse_Empty(rt, s2) THEN Res(h, rt, TRUE)
  ELSE LET r == node_removeIn(h, rt[s1], rt[s2])
       IN Res(r.h, rt, r.ok)

Sparse_RemoveNotIn(h, rt, s1, s2) ==
  IF Sparse_Empty(rt, s1) THEN Res(h, rt, TRUE)
  ELSE IF Sparse_Empty(rt, s2) THEN Sparse_Clear(h, rt, s1)
  ELSE LET r == node_removeNotIn(h, rt[s1], rt[s2])
       IN Res(r.h, rt, r.ok)

Sparse_elements(h, rt, s, alen, start) ==
  IF rt[s] = Nil THEN Ok(h, <<>>)
  ELSE node_elements64high(h, rt[s], alen, start, ZeroKey)

----------------------------------------------------------------------------
(* The program: two Sparse values, a and b, and the public operations      *)
(* applied to them in any order.  last names the call that produced the    *)
(* state, ref[s] is the set of keys s holds by the usual set semantics of  *)
(* the calls made so far, budget is the number of calls left.              *)

\* the calls the run remembers having made (done)
HistoryOps == {"Copy", "AddIn"}

Call(op, s, arg, key) == [op |-> op, s |-> s, arg |-> arg, key |-> key]

\* no enumeration with a callback is running
NoTrav ==
  [stack |-> <<>>, ret |-> "none", fcalls |-> 0, stopped |-> FALSE,
   arg |-> <<>>, dense |-> <<>>]

\* no function is applied on its own
NoPure == [fn |-> "none", set |-> {}, bitset |-> EmptySet256, n |-> 0,
           called |-> FALSE, pos |-> 0, in |-> FALSE]

\* no Dense is in use: both have the empty word list of NewDense(0)
NoDense == [sets |-> [s \in SetNames |-> <<>>],
            pre |-> [s \in SetNames |-> <<>>], op |-> "none", s |-> "-",
            arg |-> "-", n |-> 0, ret |-> FALSE]

Start ==
  /\ trav = NoTrav
  /\ pure = NoPure
  /\ dense = NoDense
  /\ heap = EmptyHeap
  /\ root = [s \in SetNames |-> Nil]
  /\ panicked = FALSE
  /\ last = Call("NewSparse", "-", "-", ZeroKey)
  /\ ref = [s \in SetNames |-> {}]
  /\ done = {}

Init == Start /\ budget = MaxCalls

\* a call is made while the program runs and the run has calls left
CanCall == ~panicked /\ budget > 0

\* the state after a call that returned r
Returns(r, call) ==
  LET c == Collect(r.h, r.rt)
  IN /\ root' = c.rt
     /\ heap' = c.h
     /\ panicked' = ~r.ok
     /\ last' = call
     /\ budget' = budget - 1
     /\ done' = done \cup ({call.op} \cap HistoryOps)
     /\ UNCHANGED <<trav, pure, dense>>

Add64(s, n) ==
  /\ CanCall
  /\ Returns(Sparse_Add64(heap, root, s, n), Call("Add64", s, "-", n))
  /\ ref' = [ref EXCEPT ![s] = @ \cup {n}]

Remove64(s, n) ==
  /\ CanCall
  /\ Returns(Sparse_Remove64(heap, root, s, n), Call("Remove64", s, "-", n))
  /\ ref' = [ref EXCEPT ![s] = @ \ {n}]

Clear(s) ==
  /\ CanCall
  /\ Returns(Sparse_Clear(heap, root, s), Call("Clear", s, "-", ZeroKey))
  /\ ref' = [ref EXCEPT ![s] = {}]

Copy(s, c) ==
  /\ CanCall
  /\ s # c
  /\ Returns(Sparse_Copy(heap, root, s, c), Call("Copy", s, c, ZeroKey))
  /\ ref' = [ref EXCEPT ![c] = ref[s]]

AddIn(s1, s2) ==
  /\ CanCall
  /\ s1 # s2
  /\ Returns(Sparse_AddIn(heap, root, s1, s2), Call("AddIn", s1, s2, ZeroKey))
  /\ ref' = [ref EXCEPT ![s1] = @ \cup ref[s2]]

RemoveIn(s1, s2) ==
  /\ CanCall
  /\ s1 # s2
  /\ Returns(Sparse_RemoveIn(heap, root, s1, s2), Call("RemoveIn", s1, s2, ZeroKey))
  /\ ref' = [ref EXCEPT ![s1] = @ \ ref[s2]]

RemoveNotIn(s1, s2) ==
  /\ CanCall
  /\ s1 # s2
  /\ Returns(Sparse_RemoveNotIn(heap, root, s1, s2), Call("RemoveNotIn", s1, s2, ZeroKey))
  /\ ref' = [ref EXCEPT ![s1] = @ \cap ref[s2]]

Next ==
  \/ \E s \in SetNames, n \in Keys : Add64(s, n)
  \/ \E s \in SetNames, n \in Keys : Remove64(s, n)
  \/ \E s \in SetNames : Clear(s)
  \/ \E s \in SetNames, c \in SetNames : Copy(s, c)
  \/ \E s1 \in SetNames, s2 \in SetNames : AddIn(s1, s2)
  \/ \E s1 \in SetNames, s2 \in SetNames : RemoveIn(s1, s2)
  \/ \E s1 \in SetNames, s2 \in SetNames : RemoveNotIn(s1, s2)

Spec == Init /\ [][Next]_vars

\* the program that only adds and removes keys
NextAddRemove ==
  \/ \E s \in SetNames, n \in Keys : Add64(s, n)
  \/ \E s \in SetNames, n \in Keys : Remove64(s, n)

InitAddRemove == Start /\ budget = MaxAddRemove

SpecAddRemove == InitAddRemove /\ [][NextAddRemove]_vars

----------------------------------------------------------------------------
(* What the claims observe *)

\* s.Contains64(v) returns true
Has(h, rt, s, v) ==
  LET r == Sparse_Contains64(h, rt, s, v)
  IN r.ok /\ r.ret

Elems(h, rt, s) == {v \in Keys : Has(h, rt, s, v)}

\* the members of a set256
Members(b) == UNION {{64 * (i - 1) + m : m \in b[i]} : i \in 1..4}

\* the nodes of the tree of s
NodesOf(h, rt, s) ==
  {n \in Reachable(h, {rt[s]} \ {Nil}) : h[n].kind = "node"}

ChildEmpty(h, c) ==
  IF h[c].kind = "leaf" THEN set256_empty(h[c].bitset) ELSE h[c].len = 0

NodeOK(h, n) ==
  LET subs == Subnodes(h, n)
  IN /\ Len(subs) = set256_len(h[n].bitset)
     /\ {subs[i].index : i \in 1..Len(subs)} = Members(h[n].bitset)
     /\ \A i \in 1..Len(subs) : \A j \in 1..Len(subs) :
          i < j => subs[i].index < subs[j].index
     /\ \A i \in 1..Len(subs) : ~ChildEmpty(h, subs[i].sub)

NodeInvariant(h, rt, s) == \A n \in NodesOf(h, rt, s) : NodeOK(h, n)

Mutators == {"Add64", "Remove64", "Clear", "AddIn", "RemoveIn", "RemoveNotIn"}

----------------------------------------------------------------------------
(* Claims *)

\* C1: in every Sparse reachable by the public operations, every interior
\* node has len(subnodes) = bitset.len(), the indexes of its subnodes are
\* the set bits of its bitset in strictly ascending order, and no child is
\* empty.
C1_NodeInvariant ==
  ~panicked => \A s \in SetNames : NodeInvariant(heap, root, s)

\* C2: after any sequence of Add64 and Remove64 calls on empty sets,
\* Contains64(v) returns true iff v is in the reference set, for every key
\* v, the keys 0 and 2^64-1 included.
C2_ContainsMatchesReference ==
  /\ ~panicked
  /\ \A s \in SetNames : \A v \in Keys :
       LET r == Sparse_Contains64(heap, root, s, v)
       IN r.ok /\ (r.ret <=> v \in ref[s])

\* a holds 2^64-1 and not 0 after 0 was added and then removed, b holds 0
C2_Witness ==
  /\ last = Call("Remove64", "a", "-", Key0)
  /\ budget = MaxAddRemove - 4
  /\ ref["a"] = {KeyMax}
  /\ Has(heap, root, "a", KeyMax)
  /\ ~Has(heap, root, "a", Key0)
  /\ ref["b"] = {Key0}
  /\ Has(heap, root, "b", Key0)

\* C3: after any sequence of public operations Empty(), Len() = 0 and
\* root = nil are equivalent.
C3_EmptyLenRoot ==
  ~panicked => \A s \in SetNames :
    /\ Sparse_Empty(root, s) <=> (Sparse_Len(heap, root, s) = 0)
    /\ (Sparse_Len(heap, root, s) = 0) <=> (root[s] = Nil)

\* sparseFrom(us...) of the tests, built in the variable t of a copy of the
\* roots: t is a fresh Sparse to which the keys of us are added in order
RECURSIVE sparseFrom_loop(_, _, _)
sparseFrom_loop(r, us, i) ==
  IF i > Len(us) \/ ~r.ok THEN r
  ELSE sparseFrom_loop(Sparse_Add64(r.h, r.rt, "t", us[i]), us, i + 1)

sparseFrom(h, rt, us) ==
  sparseFrom_loop(Res(h, [s \in (DOMAIN rt) \cup {"t"} |-> IF s = "t" THEN Nil ELSE rt[s]], TRUE),
                  us, 1)

\* the keys of K in the order of KeyTable
KeySeq(K) == SelectSeq(KeyTable, LAMBDA k : k \in K)

\* s.Equal(sparseFrom(K...)) returns true
EqualToFresh(h, rt, s, K) ==
  LET f == sparseFrom(h, rt, KeySeq(K))
      e == Sparse_Equal(f.h, f.rt, s, "t")
  IN f.ok /\ e.ok /\ e.ret

\* C4: after a.AddIn(b), a.Contains64(v) = (a0.Contains64(v) OR
\* b.Contains64(v)) for every key v, a0 being a before the call.
C4_UnionLaw ==
  [][last'.op = "AddIn" =>
       /\ ~panicked'
       /\ \A v \in Keys :
            Has(heap', root', last'.s, v)
              <=> (Has(heap, root, last'.s, v) \/ Has(heap, root, last'.arg, v))]_vars

\* a.AddIn(b) has returned with a holding keys of both: 0 of a0, 2^64-1 of b
C4_Witness ==
  /\ last = Call("AddIn", "a", "b", ZeroKey)
  /\ ~panicked
  /\ ref["a"] = {Key0, KeyMax}
  /\ ref["b"] = {KeyMax}
  /\ Elems(heap, root, "a") = {Key0, KeyMax}
  /\ Elems(heap, root, "b") = {KeyMax}

\* C5: after a.RemoveIn(b), a.Contains64(v) = (a0.Contains64(v) AND NOT
\* b.Contains64(v)) for every key v, and a is Equal to the fresh Sparse
\* to which exactly the keys of a0 not in b were added.
C5_DifferenceLaw ==
  [][last'.op = "RemoveIn" =>
       /\ ~panicked'
       /\ \A v \in Keys :
            Has(heap', root', last'.s, v)
              <=> (Has(heap, root, last'.s, v) /\ ~Has(heap, root, last'.arg, v))
       /\ EqualToFresh(heap', root', last'.s,
                       Elems(heap, root, last'.s) \ Elems(heap, root, last'.arg))]_vars

\* C6: after a.RemoveNotIn(b), a.Contains64(v) = (a0.Contains64(v) AND
\* b.Contains64(v)) for every key v, and a is Equal to the fresh Sparse to
\* which exactly the common keys were added.
C6_IntersectionLaw ==
  [][last'.op = "RemoveNotIn" =>
       /\ ~panicked'
       /\ \A v \in Keys :
            Has(heap', root', last'.s, v)
              <=> (Has(heap, root, last'.s, v) /\ Has(heap, root, last'.arg, v))
       /\ EqualToFresh(heap', root', last'.s,
                       Elems(heap, root, last'.s) \cap Elems(heap, root, last'.arg))]_vars

\* C7: c = s.Copy() gives c.Equal(s), c.Contains64(v) = s.Contains64(v) for
\* every key v and c.Len() = s.Len(), and s holds the same keys after the
\* call as before it.
C7_CopyEqual ==
  [][last'.op = "Copy" =>
       LET s == last'.s
           c == last'.arg
           e == Sparse_Equal(heap', root', c, s)
       IN /\ ~panicked'
          /\ e.ok /\ e.ret
          /\ \A v \in Keys : Has(heap', root', c, v) <=> Has(heap', root', s, v)
          /\ Sparse_Len(heap', root', c) = Sparse_Len(heap', root', s)
          /\ \A v \in Keys : Has(heap', root', s, v) <=> Has(heap, root, s, v)]_vars

\* a call of a mutator on s leaves the keys and the node invariant of the
\* other set as they were
FrameOfOther(s) ==
  /\ ~panicked'
  /\ Elems(heap', root', Other(s)) = Elems(heap, root, Other(s))
  /\ NodeInvariant(heap', root', Other(s)) <=> NodeInvariant(heap, root, Other(s))

\* C8: once c = s.Copy() was called, a mutation (Add64, Remove64, AddIn,
\* RemoveIn, RemoveNotIn, Clear) of either of the two sets leaves the keys
\* and the node invariant of the other one unchanged.
C8_CopyIndependent ==
  [][("Copy" \in done /\ last'.op \in Mutators) => FrameOfOther(last'.s)]_vars

\* C9: once a.AddIn(b) was called, a mutation of a leaves the keys and the
\* node invariant of b unchanged, and a mutation of b leaves a unchanged.
C9_AddInNoSharing ==
  [][("AddIn" \in done /\ last'.op \in Mutators) => FrameOfOther(last'.s)]_vars

\* the keys written by s.elements(a, 0) with len(a) = s.Len()
Enumerate(s) == Sparse_elements(heap, root, s, Sparse_Len(heap, root, s), ZeroKey)

\* C10: enumerating s from 0 into a buffer of length s.Len() returns s.Len()
\* and yields every key of s exactly once, in strictly ascending order.
C10_ElementsAscending ==
  ~panicked =>
    \A s \in SetNames :
      LET r == Enumerate(s)
      IN /\ r.ok
         /\ Len(r.ret) = Sparse_Len(heap, root, s)
         /\ \A i \in 1..Len(r.ret) : \A j \in 1..Len(r.ret) :
              i < j => KeyLess(r.ret[i], r.ret[j])
         /\ \A i \in 1..Len(r.ret) : Has(heap, root, s, r.ret[i])
         /\ \A v \in Keys :
              Has(heap, root, s, v) => \E i \in 1..Len(r.ret) : r.ret[i] = v

\* C11: under Add64/Remove64 alone, Len() is the number of keys of the
\* reference set; Add64 of a key already present and Remove64 of an absent
\* key leave Len() unchanged, Add64 of a new key adds 1, Remove64 of a
\* present key subtracts 1.
C11_LenMatchesReference ==
  [][last'.op \in {"Add64", "Remove64"} =>
       LET s == last'.s
           before == Sparse_Len(heap, root, s)
           after == Sparse_Len(heap', root', s)
           present == Has(heap, root, s, last'.key)
       IN /\ ~panicked'
          /\ \A t \in SetNames : Sparse_Len(heap', root', t) = Cardinality(ref'[t])
          /\ last'.op = "Add64" => after = (IF present THEN before ELSE before + 1)
          /\ last'.op = "Remove64" => after = (IF present THEN before - 1 ELSE before)]_vars

\* a holds 0 and 2^64-1, Len() is 2, and the last call removed a key b
\* does not hold
C11_Witness ==
  /\ last = Call("Remove64", "b", "-", KeyMax)
  /\ ref["a"] = {Key0, KeyMax}
  /\ ref["b"] = {Key0}
  /\ Sparse_Len(heap, root, "a") = 2
  /\ Sparse_Len(heap, root, "b") = 1

\* C12: a.Equal(b) returns true iff a and b contain the same keys, and
\* a.Equal(b) = b.Equal(a), for any two sets built by public operations.
C12_EqualExtensional ==
  ~panicked =>
    LET e1 == Sparse_Equal(heap, root, "a", "b")
        e2 == Sparse_Equal(heap, root, "b", "a")
    IN /\ e1.ok /\ e2.ok
       /\ e1.ret <=> (Elems(heap, root, "a") = Elems(heap, root, "b"))
       /\ e1.ret <=> e2.ret

----------------------------------------------------------------------------
(* Sparse.String.  A string is the sequence of its characters. *)

\* the quotient and the remainder of the division of e by 10, byte by byte
\* from the most significant one
RECURSIVE DivMod10(_, _, _, _)
DivMod10(e, i, rem, quot) ==
  IF i > 8 THEN [quot |-> quot, rem |-> rem]
  ELSE LET cur == rem * 256 + e[i]
       IN DivMod10(e, i + 1, cur % 10, Append(quot, cur \div 10))

DigitChars == <<"0", "1", "2", "3", "4", "5", "6", "7", "8", "9">>

\* fmt's %d of a uint64: its decimal digits, most significant first
RECURSIVE FormatDecimal_loop(_, _)
FormatDecimal_loop(e, out) ==
  LET d == DivMod10(e, 1, 0, <<>>)
      out1 == <<DigitChars[d.rem + 1]>> \o out
  IN IF d.quot = ZeroKey THEN out1 ELSE FormatDecimal_loop(d.quot, out1)

FormatDecimal(e) == FormatDecimal_loop(e, <<>>)

\* the loop of String with "," in place of ", " as the separator
RECURSIVE Sparse_String_loop_noSpace(_, _, _)
Sparse_String_loop_noSpace(els, i, b) ==
  IF i > Len(els) THEN b
  ELSE Sparse_String_loop_noSpace(els, i + 1, b \o <<",">> \o FormatDecimal(els[i]))

\* for _, e := range els[1:] { Fprintf(&b, ", %d", e) }
RECURSIVE Sparse_String_loop(_, _, _)
Sparse_String_loop(els, i, b) ==
  IF i > Len(els) THEN b
  ELSE Sparse_String_loop(els, i + 1, b \o <<",", " ">> \o FormatDecimal(els[i]))

\* els := make([]uint64, s.Len()) is all zero before s.elements fills its
\* head; els[0] panics when s.Len() is 0
Sparse_String(h, rt, s) ==
  IF Sparse_Empty(rt, s) THEN Ok(h, <<"{", "}">>)
  ELSE LET n == Sparse_Len(h, rt, s)
           r == Sparse_elements(h, rt, s, n, ZeroKey)
           els == [i \in 1..n |-> IF i <= Len(r.ret) THEN r.ret[i] ELSE ZeroKey]
       IN IF ~r.ok THEN Panic(h)
          ELSE IF n = 0 THEN Panic(h)
          ELSE Ok(h, Sparse_String_loop(els, 2, <<"{">> \o FormatDecimal(els[1])) \o <<"}">>)

\* C13: in every state reached by public operations no call has failed, and
\* Contains64 of every key, elements, Equal, Len and String return without
\* a failed assertion or an index out of range.
C13_NoPanic ==
  /\ ~panicked
  /\ \A s \in SetNames :
       /\ \A v \in Keys : Sparse_Contains64(heap, root, s, v).ok
       /\ Sparse_elements(heap, root, s, Sparse_Len(heap, root, s), ZeroKey).ok
       /\ Sparse_Equal(heap, root, s, Other(s)).ok
       /\ Sparse_String(heap, root, s).ok

\* C14: when a is not empty and b contains exactly the keys of a,
\* a.RemoveIn(b) leaves a empty: a.Empty() is true, a.Len() is 0, the root
\* is nil and a is Equal to a new Sparse.
C14_RemoveInSameIsEmpty ==
  [][(/\ last'.op = "RemoveIn"
      /\ Elems(heap, root, last'.s) # {}
      /\ Elems(heap, root, last'.s) = Elems(heap, root, last'.arg)) =>
       /\ ~panicked'
       /\ Sparse_Empty(root', last'.s)
       /\ Sparse_Len(heap', root', last'.s) = 0
       /\ root'[last'.s] = Nil
       /\ EqualToFresh(heap', root', last'.s, {})]_vars

\* C15: adding the keys that s.elements yields, in that order, to a new
\* Sparse t gives t.Equal(s) and s.Equal(t).
C15_RoundTrip ==
  ~panicked =>
    \A s \in SetNames :
      LET r == Enumerate(s)
          f == sparseFrom(heap, root, r.ret)
          e1 == Sparse_Equal(f.h, f.rt, "t", s)
          e2 == Sparse_Equal(f.h, f.rt, s, "t")
      IN /\ r.ok /\ f.ok
         /\ e1.ok /\ e1.ret
         /\ e2.ok /\ e2.ret

\* C16: Remove64(v) on a set that holds exactly the key v drops the root, so
\* that Empty() is true afterwards; Remove64 on an empty Sparse leaves it
\* empty, with Contains64 false for every key.
C16_RemoveLastDropsRoot ==
  [][last'.op = "Remove64" =>
       LET s == last'.s
       IN /\ Elems(heap, root, s) = {last'.key} =>
               ~panicked' /\ root'[s] = Nil /\ Sparse_Empty(root', s)
          /\ Sparse_Empty(root, s) =>
               /\ ~panicked'
               /\ Sparse_Empty(root', s)
               /\ \A v \in Keys : ~Has(heap', root', s, v)]_vars

\* the keys of KeyTable written in decimal
DecimalTable ==
  << <<"0">>,
     <<"1", "8", "4", "4", "6", "7", "4", "4", "0", "7", "3", "7", "0", "9", "5", "5", "1", "6", "1", "5">>,
     <<"2", "8", "1", "4", "7", "4", "9", "7", "6", "7", "1", "0", "6", "5", "6">>,
     <<"1">>,
     <<"2", "5", "6">>,
     <<"6", "4">> >>

Decimal(v) == DecimalTable[CHOOSE i \in 1..Len(KeyTable) : KeyTable[i] = v]

\* the keys of K in ascending order
RECURSIVE Ascending(_)
Ascending(K) ==
  IF K = {} THEN <<>>
  ELSE LET m == CHOOSE x \in K : \A y \in K \ {x} : KeyLess(x, y)
       IN <<m>> \o Ascending(K \ {m})

RECURSIVE JoinDecimal(_, _)
JoinDecimal(q, i) ==
  IF i > Len(q) THEN <<>>
  ELSE (IF i = 1 THEN <<>> ELSE <<",", " ">>) \o Decimal(q[i]) \o JoinDecimal(q, i + 1)

\* "{" + the keys of K in ascending order, in decimal, joined by ", " + "}"
Rendered(K) == <<"{">> \o JoinDecimal(Ascending(K), 1) \o <<"}">>

----------------------------------------------------------------------------
(* The enumeration with a callback: node.elements, set256.elements and      *)
(* Dense.Elements call f on successive slices of elements and stop when f   *)
(* returns false.  trav.stack holds the running calls, innermost last:      *)
(* the object, the position of its loop and its offset; trav.ret is the     *)
(* value the call that returned last handed to its caller; trav.fcalls      *)
(* counts the calls of f, trav.arg is the slice of the last one and         *)
(* trav.stopped tells that f has returned false.                            *)

\* capacity given to NewDense
DenseCap == 128

\* the elements added to the Dense
DenseElems == {0, 63, 64}

\* e + n * 256^(8 - i) in 64 bits
RECURSIVE KeyAddAt(_, _, _)
KeyAddAt(e, i, n) ==
  IF i < 1 \/ n = 0 THEN e
  ELSE LET t == e[i] + n
       IN KeyAddAt([e EXCEPT ![i] = t % 256], i - 1, t \div 256)

\* bits.TrailingZeros64(s), 64 - bits.LeadingZeros64(s)
Set64_elementRange(s) ==
  IF s = {} THEN [low |-> 64, high |-> 0]
  ELSE [low |-> CHOOSE x \in s : \A y \in s : x <= y,
        high |-> (CHOOSE x \in s : \A y \in s : x >= y) + 1]

\* for e := low; e < high; e++ { if s.Contains(uint8(e)) { (*b)[i] = e; i++ } }:
\* b with the members of s in [e, high) appended in ascending order
Set64_populate_loop(s, e, high, b) ==
  LET M == {m \in e..(high - 1) : Set64_Contains(s, m)}
      kth(k) == CHOOSE m \in M : Cardinality({x \in M : x < m}) = k - 1
  IN b \o [k \in 1..Cardinality(M) |-> kth(k)]

\* buf[:n] after n := s.populate(&buf)
Set64_populate(s) ==
  LET r == Set64_elementRange(s)
  IN Set64_populate_loop(s, r.low, r.high, <<>>)

\* setslice with capacity/64 + 1 words
setslice_div(capacity) ==
  IF capacity = 0 THEN [ok |-> TRUE, sets |-> <<>>]
  ELSE IF capacity < 0 THEN [ok |-> FALSE, sets |-> <<>>]
  ELSE [ok |-> TRUE, sets |-> [i \in 1..(capacity \div 64 + 1) |-> {}]]

\* nil for capacity 0, panic("negative capacity") (ok = FALSE) below 0,
\* make([]Set64, (capacity-1)/64+1) otherwise
setslice(capacity) ==
  IF capacity = 0 THEN [ok |-> TRUE, sets |-> <<>>]
  ELSE IF capacity < 0 THEN [ok |-> FALSE, sets |-> <<>>]
  ELSE [ok |-> TRUE, sets |-> [i \in 1..((capacity - 1) \div 64 + 1) |-> {}]]

NewDense(capacity) == setslice(capacity)

Dense_Add(sets, u) == [sets EXCEPT ![u \div 64 + 1] = Set64_Add(@, u % 64)]

RECURSIVE denseFrom(_, _)
denseFrom(sets, D) ==
  IF D = {} THEN sets
  ELSE LET u == CHOOSE x \in D : TRUE
       IN denseFrom(Dense_Add(sets, u), D \ {u})

\* s.Add64 of the keys us[i], us[i+1], ... in turn
RECURSIVE Sparse_AddAll(_, _, _, _)
Sparse_AddAll(r, s, us, i) ==
  IF i > Len(us) \/ ~r.ok THEN r
  ELSE Sparse_AddAll(Sparse_Add64(r.h, r.rt, s, us[i]), s, us, i + 1)

Frame(kind, id, offset) == [kind |-> kind, id |-> id, i |-> 0, offset |-> offset]

Top(t) == t.stack[Len(t.stack)]

Pop(t) == SubSeq(t.stack, 1, Len(t.stack) - 1)

\* the loop of the innermost call moves to its next position
Advance(t) == [t.stack EXCEPT ![Len(t.stack)].i = @ + 1]

Running(kind) ==
  /\ trav.stack # <<>>
  /\ Top(trav).kind = kind

\* buf[:n] of set256.elements for word i: the members of the word plus
\* offset + 64*i
set256_elements_buf(b, i, offset) ==
  LET m == Set64_populate(b[i + 1])
  IN [j \in 1..Len(m) |-> KeyAddAt(KeyAddAt(offset, 8, 64 * i), 8, m[j])]

\* set256.elements that goes on with the next word whatever f returned
set256_elements_after_goOn(t, ok) ==
  [t EXCEPT !.stack = Advance(t), !.ret = "none"]

\* set256.elements after f(buf[:n]) returned ok: return false, or go on
\* with the next word
set256_elements_after(t, ok) ==
  IF ~ok THEN [t EXCEPT !.stack = Pop(t), !.ret = "false"]
  ELSE [t EXCEPT !.stack = Advance(t), !.ret = "none"]

\* for i, ss := range s.sets { ...; if !f(buf[:n]) { return false } }
set256_elements_call ==
  /\ Running("leaf")
  /\ trav.ret = "none"
  /\ Top(trav).i < 4
  /\ \E ok \in BOOLEAN :
       LET f == Top(trav)
           buf == set256_elements_buf(heap[f.id].bitset, f.i, f.offset)
           t == [trav EXCEPT !.fcalls = @ + 1, !.arg = buf,
                             !.stopped = @ \/ ~ok]
       IN trav' = set256_elements_after(t, ok)
  /\ UNCHANGED <<heap, root, panicked, last, budget, ref, done, pure, dense>>

\* return true after the last word
set256_elements_return ==
  /\ Running("leaf")
  /\ trav.ret = "none"
  /\ Top(trav).i >= 4
  /\ trav' = [trav EXCEPT !.stack = Pop(trav), !.ret = "true"]
  /\ UNCHANGED <<heap, root, panicked, last, budget, ref, done, pure, dense>>

\* sn.sub.elements(f, offset+uint64(sn.index)<<n.shift) is called
node_elements_call ==
  /\ Running("node")
  /\ trav.ret = "none"
  /\ Top(trav).i < heap[Top(trav).id].len
  /\ LET f == Top(trav)
         n == f.id
         sn == Subnodes(heap, n)[f.i + 1]
         off == KeyAddAt(f.offset, 8 - (heap[n].shift \div 8), sn.index)
     IN trav' = [trav EXCEPT
                   !.stack = Append(@, Frame(heap[sn.sub].kind, sn.sub, off))]
  /\ UNCHANGED <<heap, root, panicked, last, budget, ref, done, pure, dense>>

\* node.elements after sn.sub.elements returned ok
node_elements_after(t, ok) ==
  IF ~ok THEN [t EXCEPT !.stack = Pop(t), !.ret = "false"]
  ELSE [t EXCEPT !.stack = Advance(t), !.ret = "none"]

\* if !sn.sub.elements(...) { return false }
node_elements_resume ==
  /\ Running("node")
  /\ trav.ret \in {"true", "false"}
  /\ trav' = node_elements_after(trav, trav.ret = "true")
  /\ UNCHANGED <<heap, root, panicked, last, budget, ref, done, pure, dense>>

\* return true after the last subnode
node_elements_return ==
  /\ Running("node")
  /\ trav.ret = "none"
  /\ Top(trav).i >= heap[Top(trav).id].len
  /\ trav' = [trav EXCEPT !.stack = Pop(trav), !.ret = "true"]
  /\ UNCHANGED <<heap, root, panicked, last, budget, ref, done, pure, dense>>

\* buf[:n] of Dense.Elements for word i
Dense_Elements_buf(sets, i) ==
  LET m == Set64_populate(sets[i + 1])
  IN [j \in 1..Len(m) |-> m[j] + 64 * i]

\* Dense.Elements after f(buf[:n]) returned ok: break, or go on
Dense_Elements_after(t, ok) ==
  IF ~ok THEN [t EXCEPT !.stack = Pop(t), !.ret = "void"]
  ELSE [t EXCEPT !.stack = Advance(t), !.ret = "none"]

\* for i, t := range s.sets { ...; if !f(buf[:n]) { break } }
Dense_Elements_call ==
  /\ Running("dense")
  /\ Top(trav).i < Len(trav.dense)
  /\ \E ok \in BOOLEAN :
       LET t == [trav EXCEPT !.fcalls = @ + 1,
                             !.arg = Dense_Elements_buf(trav.dense, Top(trav).i),
                             !.stopped = @ \/ ~ok]
       IN trav' = Dense_Elements_after(t, ok)
  /\ UNCHANGED <<heap, root, panicked, last, budget, ref, done, pure, dense>>

Dense_Elements_return ==
  /\ Running("dense")
  /\ Top(trav).i >= Len(trav.dense)
  /\ trav' = [trav EXCEPT !.stack = Pop(trav), !.ret = "void"]
  /\ UNCHANGED <<heap, root, panicked, last, budget, ref, done, pure, dense>>

\* a Sparse a with the keys K and the call a.root.elements(f, 0)
InitSparseElements(K) ==
  LET r == Sparse_AddAll(Res(EmptyHeap, [s \in SetNames |-> Nil], TRUE), "a", KeySeq(K), 1)
      c == Collect(r.h, r.rt)
  IN /\ heap = c.h
     /\ root = c.rt
     /\ ref = [s \in SetNames |-> IF s = "a" THEN K ELSE {}]
     /\ last = Call("elements", "a", "-", ZeroKey)
     /\ trav = [NoTrav EXCEPT
                  !.stack = IF c.rt["a"] = Nil THEN <<>>
                            ELSE <<Frame("node", c.rt["a"], ZeroKey)>>]

\* a Dense with the elements D and the call of its Elements(f)
InitDenseElements(D) ==
  /\ heap = EmptyHeap
  /\ root = [s \in SetNames |-> Nil]
  /\ ref = [s \in SetNames |-> {}]
  /\ last = Call("Elements", "-", "-", ZeroKey)
  /\ trav = [NoTrav EXCEPT !.stack = <<Frame("dense", Nil, ZeroKey)>>,
                           !.dense = denseFrom(NewDense(DenseCap).sets, D)]

InitElements ==
  /\ pure = NoPure
  /\ dense = NoDense
  /\ panicked = FALSE
  /\ budget = 0
  /\ done = {}
  /\ \/ \E K \in SUBSET Keys : InitSparseElements(K)
     \/ \E D \in SUBSET DenseElems : InitDenseElements(D)

NextElements ==
  \/ set256_elements_call
  \/ set256_elements_return
  \/ node_elements_call
  \/ node_elements_resume
  \/ node_elements_return
  \/ Dense_Elements_call
  \/ Dense_Elements_return

SpecElements == InitElements /\ [][NextElements]_vars

\* C18: once the callback f has returned false, f is not called again in
\* that traversal: every later step is the return of the innermost running
\* elements call, which hands false to its caller (Dense.Elements, which
\* has no result, just returns).
C18_StopAfterFalse ==
  [][/\ trav.stopped =>
          /\ trav'.fcalls = trav.fcalls
          /\ Len(trav'.stack) = Len(trav.stack) - 1
     /\ trav'.stopped => trav'.ret \in {"false", "void"}]_vars

\* f returned false in a leaf and all the seven running node.elements
\* calls above it have returned false
C18_Witness ==
  /\ last.op = "elements"
  /\ trav.stopped
  /\ trav.fcalls = 2
  /\ trav.stack = <<>>
  /\ trav.ret = "false"
  /\ ref["a"] = {Key0, KeyMax}

----------------------------------------------------------------------------
(* Set64.position and set256.position applied on their own: pure holds the  *)
(* receiver, the argument n and, once the function was called, its results. *)

\* the Set64 values position is applied to: the sample set of the tests,
\* {3, 17, 63}, its subsets, and sets with the lowest and highest bits
Set64Samples == SUBSET {0, 3, 17, 62, 63}

\* the words of the set256 values position is applied to
WordSamples == {{}, {0, 63}, {3, 17, 63}}

InitPosition ==
  /\ dense = NoDense
  /\ heap = EmptyHeap
  /\ root = [s \in SetNames |-> Nil]
  /\ panicked = FALSE
  /\ budget = 0
  /\ ref = [s \in SetNames |-> {}]
  /\ done = {}
  /\ trav = NoTrav
  /\ last = Call("position", "-", "-", ZeroKey)
  /\ \/ \E s \in Set64Samples, n \in 0..63 :
          pure = [NoPure EXCEPT !.fn = "Set64", !.set = s, !.n = n]
     \/ \E b \in [1..4 -> WordSamples], n \in 0..255 :
          pure = [NoPure EXCEPT !.fn = "set256", !.bitset = b, !.n = n]

Set64_position_call ==
  /\ pure.fn = "Set64"
  /\ ~pure.called
  /\ LET r == Set64_position(pure.set, pure.n)
     IN pure' = [pure EXCEPT !.called = TRUE, !.pos = r.pos, !.in = r.in]
  /\ UNCHANGED <<heap, root, panicked, last, budget, ref, done, trav, dense>>

set256_position_call ==
  /\ pure.fn = "set256"
  /\ ~pure.called
  /\ LET r == set256_position(pure.bitset, pure.n)
     IN pure' = [pure EXCEPT !.called = TRUE, !.pos = r.pos, !.in = r.in]
  /\ UNCHANGED <<heap, root, panicked, last, budget, ref, done, trav, dense>>

NextPosition ==
  \/ Set64_position_call
  \/ set256_position_call

SpecPosition == InitPosition /\ [][NextPosition]_vars

\* C19: for a Set64 s and n in [0,64), s.position(n) returns the number of
\* members of s strictly less than n, also for n = 0 and n = 63, and whether
\* n is a member of s.
C19_Set64Position ==
  (pure.fn = "Set64" /\ pure.called) =>
    /\ pure.pos = Cardinality({m \in pure.set : m < pure.n})
    /\ pure.in <=> pure.n \in pure.set

\* position(63) of {3, 17, 63} returned (2, true)
C19_Witness ==
  /\ pure.fn = "Set64"
  /\ pure.called
  /\ pure.set = {3, 17, 63}
  /\ pure.n = 63
  /\ pure.pos = 2
  /\ pure.in

----------------------------------------------------------------------------
(* The Dense bitset on its own: two Dense values, dense.sets[s] being the   *)
(* word list of s; dense.op, dense.s, dense.arg and dense.n tell the last   *)
(* call, dense.ret what it returned and dense.pre the word lists before it. *)

\* the capacities given to NewDense
DenseCaps == {-1, 0, 1, 64, 65, DenseCap}

\* the arguments of Add and Remove
DenseArgs == {0, 63, 64, DenseCap - 1}

Dense_Cap(sets) == Len(sets) * 64

\* the elements of a Dense
Dense_Elems(sets) == UNION {{64 * (i - 1) + m : m \in sets[i]} : i \in 1..Len(sets)}

Dense_Remove(sets, u) == [sets EXCEPT ![u \div 64 + 1] = Set64_Remove(@, u % 64)]

\* SetCap that does not copy the words
Dense_SetCap_noCopy(sets, newCapacity) == setslice(newCapacity).sets

\* newSets := setslice(newCapacity); copy(newSets, s.sets); s.sets = newSets
Dense_SetCap(sets, newCapacity) ==
  LET newSets == setslice(newCapacity).sets
  IN [i \in 1..Len(newSets) |-> IF i <= Len(sets) THEN sets[i] ELSE newSets[i]]

\* Equal that compares the common words only
Dense_Equal_overlap(s1, s2) ==
  LET t1 == IF Len(s1) > Len(s2) THEN s2 ELSE s1
      t2 == IF Len(s1) > Len(s2) THEN s1 ELSE s2
  IN \A i \in 1..Len(t1) : t1[i] = t2[i]

Dense_Equal(s1, s2) ==
  LET t1 == IF Len(s1) > Len(s2) THEN s2 ELSE s1
      t2 == IF Len(s1) > Len(s2) THEN s1 ELSE s2
  IN /\ \A i \in 1..Len(t1) : t1[i] = t2[i]
     /\ \A i \in (Len(t1) + 1)..Len(t2) : t2[i] = {}

Dense_AddIn(s1, s2) ==
  LET g == IF Dense_Cap(s1) < Dense_Cap(s2) THEN Dense_SetCap(s1, Dense_Cap(s2))
           ELSE s1
  IN [i \in 1..Len(g) |-> IF i <= Len(s2) THEN Set64_AddIn(g[i], s2[i]) ELSE g[i]]

Dense_RemoveIn(s1, s2) ==
  LET min == IF Len(s1) > Len(s2) THEN Len(s2) ELSE Len(s1)
  IN [i \in 1..Len(s1) |-> IF i <= min THEN Set64_RemoveIn(s1[i], s2[i]) ELSE s1[i]]

\* RemoveNotIn without the loop that clears the words past s2
Dense_RemoveNotIn_noClear(s1, s2) ==
  LET min == IF Len(s1) > Len(s2) THEN Len(s2) ELSE Len(s1)
  IN [i \in 1..Len(s1) |-> IF i <= min THEN Set64_RemoveNotIn(s1[i], s2[i]) ELSE s1[i]]

Dense_RemoveNotIn(s1, s2) ==
  LET min == IF Len(s1) > Len(s2) THEN Len(s2) ELSE Len(s1)
  IN [i \in 1..Len(s1) |-> IF i <= min THEN Set64_RemoveNotIn(s1[i], s2[i]) ELSE {}]

InitDense ==
  /\ heap = EmptyHeap
  /\ root = [s \in SetNames |-> Nil]
  /\ panicked = FALSE
  /\ budget = 0
  /\ ref = [s \in SetNames |-> {}]
  /\ done = {}
  /\ trav = NoTrav
  /\ pure = NoPure
  /\ last = Call("NewDense", "-", "-", ZeroKey)
  /\ dense = NoDense

\* the state after a call on s that left the word list sets in s and
\* returned ret; ok = FALSE when it panicked
DenseReturns(op, s, arg, n, sets, ret, ok) ==
  /\ dense' = [sets |-> IF ok THEN [dense.sets EXCEPT ![s] = sets] ELSE dense.sets,
               pre |-> dense.sets, op |-> op, s |-> s, arg |-> arg, n |-> n,
               ret |-> ret]
  /\ panicked' = ~ok
  /\ UNCHANGED <<heap, root, last, budget, ref, done, trav, pure>>

\* s = NewDense(capacity)
DenseNew(s, capacity) ==
  /\ ~panicked
  /\ LET r == NewDense(capacity)
     IN DenseReturns("NewDense", s, "-", capacity, r.sets, FALSE, r.ok)

\* s.Add(u): s.sets[u/64] is an index out of range past the capacity
DenseAdd(s, u) ==
  /\ ~panicked
  /\ LET ok == u \div 64 < Len(dense.sets[s])
     IN DenseReturns("Add", s, "-", u,
                     IF ok THEN Dense_Add(dense.sets[s], u) ELSE <<>>, FALSE, ok)

DenseRemove(s, u) ==
  /\ ~panicked
  /\ LET ok == u \div 64 < Len(dense.sets[s])
     IN DenseReturns("Remove", s, "-", u,
                     IF ok THEN Dense_Remove(dense.sets[s], u) ELSE <<>>, FALSE, ok)

DenseEqual(s1, s2) ==
  /\ ~panicked
  /\ DenseReturns("Equal", s1, s2, 0, dense.sets[s1],
                  Dense_Equal(dense.sets[s1], dense.sets[s2]), TRUE)

DenseAddIn(s1, s2) ==
  /\ ~panicked
  /\ DenseReturns("AddIn", s1, s2, 0,
                  Dense_AddIn(dense.sets[s1], dense.sets[s2]), FALSE, TRUE)

DenseRemoveIn(s1, s2) ==
  /\ ~panicked
  /\ DenseReturns("RemoveIn", s1, s2, 0,
                  Dense_RemoveIn(dense.sets[s1], dense.sets[s2]), FALSE, TRUE)

DenseRemoveNotIn(s1, s2) ==
  /\ ~panicked
  /\ DenseReturns("RemoveNotIn", s1, s2, 0,
                  Dense_RemoveNotIn(dense.sets[s1], dense.sets[s2]), FALSE, TRUE)

NextDense ==
  \/ \E s \in SetNames, capacity \in DenseCaps : DenseNew(s, capacity)
  \/ \E s \in SetNames, u \in DenseArgs : DenseAdd(s, u)
  \/ \E s \in SetNames, u \in DenseArgs : DenseRemove(s, u)
  \/ \E s \in SetNames : DenseEqual(s, Other(s))
  \/ \E s \in SetNames : DenseAddIn(s, Other(s))
  \/ \E s \in SetNames : DenseRemoveIn(s, Other(s))
  \/ \E s \in SetNames : DenseRemoveNotIn(s, Other(s))

SpecDense == InitDense /\ [][NextDense]_vars

\* C21: Dense.Equal ignores the capacity: s1.Equal(s2) is true exactly when
\* s1 and s2 have the same elements, whatever their word lists' lengths (the
\* words past the shorter list must all be zero), and s2.Equal(s1) gives the
\* same answer.  Equal changes neither set.
C21_DenseEqual ==
  /\ \A s1 \in SetNames, s2 \in SetNames :
       /\ Dense_Equal(dense.sets[s1], dense.sets[s2])
            <=> Dense_Elems(dense.sets[s1]) = Dense_Elems(dense.sets[s2])
       /\ Dense_Equal(dense.sets[s1], dense.sets[s2])
            <=> Dense_Equal(dense.sets[s2], dense.sets[s1])
  /\ dense.op = "Equal" =>
       /\ dense.sets = dense.pre
       /\ dense.ret <=> Dense_Elems(dense.sets[dense.s]) = Dense_Elems(dense.sets[dense.arg])
       /\ dense.ret <=> Dense_Equal(dense.sets[dense.arg], dense.sets[dense.s])

\* a.Equal(b) returned true for a of one word and b of two words, both {0, 63}
C21_Witness ==
  /\ dense.op = "Equal"
  /\ dense.s = "a"
  /\ dense.ret
  /\ dense.sets["a"] = <<{0, 63}>>
  /\ dense.sets["b"] = <<{0, 63}, {}>>

\* C22: s1.AddIn(s2) makes s1 the union of s1 and s2 for any capacities: the
\* capacity of s1 becomes s2.Cap() if it was smaller and is unchanged
\* otherwise, every u below the new capacity is in s1 exactly when it was in
\* s1 or is in s2 (so the elements s1 had are kept), and s2 is unchanged.
C22_DenseAddIn ==
  [][dense'.op = "AddIn" =>
       LET s1 == dense'.s
           s2 == dense'.arg
           old == dense.sets[s1]
           new == dense'.sets[s1]
       IN /\ Dense_Cap(new) = IF Dense_Cap(old) < Dense_Cap(dense.sets[s2])
                                THEN Dense_Cap(dense.sets[s2]) ELSE Dense_Cap(old)
          /\ Dense_Cap(new) >= Dense_Cap(old)
          /\ \A u \in 0..(Dense_Cap(new) - 1) :
               u \in Dense_Elems(new)
                 <=> (u \in Dense_Elems(old) \/ u \in Dense_Elems(dense.sets[s2]))
          /\ Dense_Elems(old) \subseteq Dense_Elems(new)
          /\ dense'.sets[s2] = dense.sets[s2]
          /\ ~panicked']_vars

\* a of one word with the elements 0 and 63 has grown to the two words of b
\* and holds its elements and the 64 of b
C22_Witness ==
  /\ dense.op = "AddIn"
  /\ dense.s = "a"
  /\ dense.pre["a"] = <<{0, 63}>>
  /\ dense.pre["b"] = <<{}, {0}>>
  /\ dense.sets["a"] = <<{0, 63}, {0}>>
  /\ dense.sets["b"] = <<{}, {0}>>

\* C23: s1.RemoveNotIn(s2) makes s1 the intersection for any capacities: the
\* words of the overlap are ANDed and every word of s1 past s2's length is
\* cleared, so u is in s1 exactly when it was in s1 and is in s2;
\* s1.RemoveIn(s2) makes s1 the difference and leaves the words of s1 past
\* s2's length as they were.  Neither changes the capacity of s1, or s2.
C23_DenseRemove ==
  [][LET s1 == dense'.s
         s2 == dense'.arg
         old == dense.sets[s1]
         new == dense'.sets[s1]
         oth == dense.sets[s2]
     IN /\ dense'.op = "RemoveNotIn" =>
             /\ Len(new) = Len(old)
             /\ \A i \in 1..Len(old) :
                  new[i] = IF i <= Len(oth) THEN old[i] \cap oth[i] ELSE {}
             /\ Dense_Elems(new) = Dense_Elems(old) \cap Dense_Elems(oth)
             /\ dense'.sets[s2] = oth
             /\ ~panicked'
        /\ dense'.op = "RemoveIn" =>
             /\ Len(new) = Len(old)
             /\ \A i \in 1..Len(old) :
                  new[i] = IF i <= Len(oth) THEN old[i] \ oth[i] ELSE old[i]
             /\ Dense_Elems(new) = Dense_Elems(old) \ Dense_Elems(oth)
             /\ dense'.sets[s2] = oth
             /\ ~panicked']_vars

\* a.RemoveNotIn(b) with a of two words and b of one: the second word of a
\* was cleared
C23_Witness ==
  /\ dense.op = "RemoveNotIn"
  /\ dense.s = "a"
  /\ dense.pre["a"] = <<{0, 63}, {0}>>
  /\ dense.pre["b"] = <<{63}>>
  /\ dense.sets["a"] = <<{63}, {}>>

\* C24: NewDense(capacity) panics when capacity is negative; for capacity 0
\* it gives a set with an empty word list and Cap() = 0; for capacity > 0 an
\* empty set whose Cap() is capacity rounded up to the next multiple of 64.
C24_NewDense ==
  dense.op = "NewDense" =>
    LET capacity == dense.n
        sets == dense.sets[dense.s]
    IN /\ capacity < 0 => panicked
       /\ capacity = 0 => ~panicked /\ sets = <<>> /\ Dense_Cap(sets) = 0
       /\ capacity > 0 =>
            /\ ~panicked
            /\ Dense_Elems(sets) = {}
            /\ Dense_Cap(sets) % 64 = 0
            /\ Dense_Cap(sets) >= capacity
            /\ Dense_Cap(sets) - capacity < 64

\* NewDense(64) replaced a set that had elements by an empty set of
\* capacity 64
C24_Witness ==
  /\ dense.op = "NewDense"
  /\ dense.n = 64
  /\ dense.s = "a"
  /\ dense.pre["a"] = <<{0, 63}, {0}>>
  /\ dense.sets["a"] = <<{}>>

----------------------------------------------------------------------------
(* Claims about the tree operations of Sparse, continued *)

\* the indexes of the children of node n
ChildIndexes(h, n) == {Subnodes(h, n)[i].index : i \in 1..h[n].len}

\* the pairs of nodes n1.removeNotIn(n2) is called on: n1 and n2, and below
\* them the children of equal index
RECURSIVE MatchedNodes(_, _, _)
MatchedNodes(h, n1, n2) ==
  {<<n1, n2>>} \cup
  UNION {MatchedNodes(h, Subnodes(h, n1)[i].sub, Subnodes(h, n2)[j].sub) :
           <<i, j>> \in {p \in (1..h[n1].len) \X (1..h[n2].len) :
                           /\ h[n1].shift > LeafShift
                           /\ Subnodes(h, n1)[p[1]].index = Subnodes(h, n2)[p[2]].index}}

\* C25: in n1.removeNotIn(n2), every child of n1 whose index is not an index
\* of a child of n2 is dropped, also the children of n1 that are left when
\* the children of n2 are exhausted: its presence bit is cleared, and it is
\* no longer among the subnodes of a node that stays in the tree.
C25_RemoveNotInDropsUnmatched ==
  [][(/\ last'.op = "RemoveNotIn"
      /\ budget' = budget - 1
      /\ root[last'.s] # Nil
      /\ root[last'.arg] # Nil) =>
       LET r == node_removeNotIn(heap, root[last'.s], root[last'.arg])
       IN /\ r.ok
          /\ \A p \in MatchedNodes(heap, root[last'.s], root[last'.arg]) :
               \A x \in ChildIndexes(heap, p[1]) \ ChildIndexes(heap, p[2]) :
                 /\ ~set256_contains(r.h[p[1]].bitset, x)
                 /\ ~set256_empty(r.h[p[1]].bitset)
                      => x \notin ChildIndexes(r.h, p[1])]_vars

----------------------------------------------------------------------------
(* An operation applied in both orders: a and a2 are built from the keys A, *)
(* b and b2 from the keys B; a.op(b) is called, then b2.op(a2), and the two *)
(* receivers are compared with Equal.  The building of the four sets counts *)
(* as one call.                                                             *)

InitCommute ==
  /\ panicked = FALSE
  /\ budget = 3
  /\ done = {}
  /\ trav = NoTrav
  /\ pure = NoPure
  /\ dense = NoDense
  /\ last = Call("NewSparse", "-", "-", ZeroKey)
  /\ heap = EmptyHeap
  /\ root = [s \in {"a", "b", "a2", "b2"} |-> Nil]
  /\ ref = [s \in {"a", "b", "a2", "b2"} |-> {}]

\* a = sparseFrom(A...), b = sparseFrom(B...), a2 = sparseFrom(A...),
\* b2 = sparseFrom(B...)
CommuteBuild(A, B) ==
  /\ CanCall
  /\ last.op = "NewSparse"
  /\ LET r1 == Sparse_AddAll(Res(heap, root, TRUE), "a", KeySeq(A), 1)
         r2 == Sparse_AddAll(r1, "b", KeySeq(B), 1)
         r3 == Sparse_AddAll(r2, "a2", KeySeq(A), 1)
         r4 == Sparse_AddAll(r3, "b2", KeySeq(B), 1)
     IN Returns(r4, Call("sparseFrom", "-", "-", ZeroKey))
  /\ ref' = [s \in {"a", "b", "a2", "b2"} |-> IF s \in {"a", "a2"} THEN A ELSE B]

\* a.AddIn(b)
CommuteAddIn ==
  /\ CanCall
  /\ last.op = "sparseFrom"
  /\ Returns(Sparse_AddIn(heap, root, "a", "b"), Call("AddIn", "a", "b", ZeroKey))
  /\ ref' = [ref EXCEPT !["a"] = @ \cup ref["b"]]

\* b2.AddIn(a2)
CommuteAddInSwapped ==
  /\ CanCall
  /\ last.op = "AddIn"
  /\ Returns(Sparse_AddIn(heap, root, "b2", "a2"), Call("AddIn", "b2", "a2", ZeroKey))
  /\ ref' = [ref EXCEPT !["b2"] = @ \cup ref["a2"]]

\* a.RemoveNotIn(b)
CommuteRemoveNotIn ==
  /\ CanCall
  /\ last.op = "sparseFrom"
  /\ Returns(Sparse_RemoveNotIn(heap, root, "a", "b"),
             Call("RemoveNotIn", "a", "b", ZeroKey))
  /\ ref' = [ref EXCEPT !["a"] = @ \cap ref["b"]]

\* b2.RemoveNotIn(a2)
CommuteRemoveNotInSwapped ==
  /\ CanCall
  /\ last.op = "RemoveNotIn"
  /\ Returns(Sparse_RemoveNotIn(heap, root, "b2", "a2"),
             Call("RemoveNotIn", "b2", "a2", ZeroKey))
  /\ ref' = [ref EXCEPT !["b2"] = @ \cap ref["a2"]]

NextCommute ==
  \/ \E A \in SUBSET Keys, B \in SUBSET Keys : CommuteBuild(A, B)
  \/ CommuteAddIn
  \/ CommuteAddInSwapped
  \/ CommuteRemoveNotIn
  \/ CommuteRemoveNotInSwapped

SpecCommute == InitCommute /\ [][NextCommute]_vars

\* C26: for any contents A and B, the receiver after a.AddIn(b), a holding A
\* and b holding B, is Equal to the receiver after b2.AddIn(a2), b2 holding
\* B and a2 holding A; the same holds for RemoveNotIn.
C26_Commutative ==
  last.s = "b2" =>
    /\ ~panicked
    /\ LET e == Sparse_Equal(heap, root, "a", "b2")
       IN e.ok /\ e.ret
    /\ LET e == Sparse_Equal(heap, root, "b2", "a")
       IN e.ok /\ e.ret

----------------------------------------------------------------------------
(* Sparse.elements with a buffer of any length and any start *)

\* the values of start: the keys and keys between them
StartKeys == {KeyTable[i] : i \in 1..Len(KeyTable)}

\* the lengths of the buffer a
BufferLens == 0..(NumKeys + 1)

\* C27: s.elements(a, start) fills a with the smallest min(len(a), k)
\* elements of s that are >= start, in ascending order, k being the number
\* of elements of s that are >= start, and returns that count; it writes
\* nothing past len(a) and returns 0 when s is empty or len(a) = 0.
C27_ElementsFromStart ==
  ~panicked =>
    \A s \in SetNames : \A alen \in BufferLens : \A start \in StartKeys :
      LET r == Sparse_elements(heap, root, s, alen, start)
          E == {v \in Keys : Has(heap, root, s, v) /\ ~KeyLess(v, start)}
          k == Cardinality(E)
          n == IF alen < k THEN alen ELSE k
      IN /\ r.ok
         /\ Len(r.ret) = n
         /\ r.ret = SubSeq(Ascending(E), 1, n)

\* C28: the binary operations do not modify their argument: after
\* a.AddIn(b), a.RemoveIn(b) or a.RemoveNotIn(b), a and b distinct, b
\* contains the keys it contained before, b.Len() is unchanged and b still
\* satisfies the node invariants.
C28_ArgumentUnchanged ==
  [][(last'.op \in {"AddIn", "RemoveIn", "RemoveNotIn"} /\ budget' = budget - 1) =>
       LET b == last'.arg
       IN /\ ~panicked'
          /\ \A v \in Keys : Has(heap', root', b, v) <=> Has(heap, root, b, v)
          /\ Sparse_Len(heap', root', b) = Sparse_Len(heap, root, b)
          /\ NodeInvariant(heap, root, b) => NodeInvariant(heap', root', b)]_vars

\* the children of node n are of the level below n
LevelOK(h, n) ==
  \A i \in 1..h[n].len :
    LET c == Subnodes(h, n)[i].sub
    IN IF h[n].shift > LeafShift
       THEN h[c].kind = "node" /\ h[c].shift = h[n].shift - 8
       ELSE h[n].shift = LeafShift /\ h[c].kind = "leaf"

\* C29: in every reachable Sparse with a root, the root is a node of shift
\* 56, every child of a node of shift s > 8 is a node of shift s - 8 and
\* every child of a node of shift 8 is a set256 leaf; so the nodes that
\* addIn, removeIn and removeNotIn meet in pairs have equal shifts and
\* assert(n1.shift == n2.shift) holds when two reachable sets are combined.
C29_Levels ==
  /\ \A s \in SetNames :
       root[s] # Nil =>
         /\ heap[root[s]].kind = "node"
         /\ heap[root[s]].shift = RootShift
         /\ \A n \in NodesOf(heap, root, s) : LevelOK(heap, n)
  /\ \A s1 \in SetNames : \A s2 \in SetNames :
       (s1 # s2 /\ root[s1] # Nil /\ root[s2] # Nil) =>
         \A p \in MatchedNodes(heap, root[s1], root[s2]) :
           SameLevel(heap, p[1], p[2])

\* a.AddIn(b) was called with b holding a key and a another one: both have
\* the seven levels of nodes over a leaf
C29_Witness ==
  /\ last.op = "AddIn"
  /\ last.s = "a"
  /\ root["a"] # Nil
  /\ root["b"] # Nil
  /\ Has(heap, root, "a", Key0)
  /\ Has(heap, root, "a", KeyMax)
  /\ Has(heap, root, "b", KeyMax)
  /\ {heap[n].shift : n \in NodesOf(heap, root, "a")} = {56, 48, 40, 32, 24, 16, 8}
  /\ \E n \in NodesOf(heap, root, "a") :
       heap[n].shift = LeafShift /\ heap[n].len > 0

\* C30: s.Remove64(v) for a key v that s does not contain leaves s
\* unchanged: it contains the same keys, Len() and Empty() are the same, no
\* node reports itself empty, and the bitsets and child arrays of all the
\* nodes are as before the call.
C30_RemoveAbsent ==
  [][(/\ last'.op = "Remove64"
      /\ budget' = budget - 1
      /\ ~Has(heap, root, last'.s, last'.key)) =>
       LET s == last'.s
       IN /\ ~panicked'
          /\ \A v \in Keys : Has(heap', root', s, v) <=> Has(heap, root, s, v)
          /\ Sparse_Len(heap', root', s) = Sparse_Len(heap, root, s)
          /\ Sparse_Empty(root', s) <=> Sparse_Empty(root, s)
          /\ root[s] # Nil => ~node_remove64(heap, root[s], last'.key).ret
          /\ heap' = heap
          /\ root' = root]_vars

====
